---- MODULE Spec2Model ----
(***************************************************************************)
(* A model of the User record of user/models.py: its plain fields, the     *)
(* full_name property, the cached is_adult property with                   *)
(* invalidate_cache(), clean(), the comparison and hashing methods and     *)
(* the generator behind __iter__.                                          *)
(*                                                                         *)
(* Python values are represented as follows.  A text is the sequence of    *)
(* its characters, so that formatting and truthiness are computed.  A      *)
(* value that may be None is a sequence of length 0 (None) or 1 (the       *)
(* value).  The instance __dict__ entry 'is_adult' is such a value too:    *)
(* None means the key is absent.                                           *)
(***************************************************************************)
EXTENDS Integers, Sequences, FiniteSets

VARIABLES
    first_name,     \* self.first_name
    last_name,      \* self.last_name
    username,       \* self.username
    email,          \* self.email
    date_joined,    \* self.date_joined, None until the row is saved
    age,            \* self.age, None or an integer
    id,             \* self.id, None until the row is saved
    cache,          \* self.__dict__.get('is_adult'): None, <<TRUE>> or <<FALSE>>
    op,             \* name of the last operation performed on self
    prev,           \* name of the operation before it
    arg,            \* the operand of the last comparison
    ret,            \* what the last operation returned or raised
    evals,          \* instrumentation: evaluations of the body of is_adult
    accesses,       \* instrumentation: accesses of self.is_adult by the caller
    emptyAccesses,  \* instrumentation: those made while nothing was stored
    pinned,         \* instrumentation: value of the first access since the last invalidation
    iters           \* the generator objects returned by iter(self)

vars == <<first_name, last_name, username, email, date_joined, age, id, cache,
          op, prev, arg, ret, evals, accesses, emptyAccesses, pinned, iters>>

fields == <<first_name, last_name, username, email, date_joined, age, id>>

----------------------------------------------------------------------------
(* Bounds *)

MaxEvals == 3
MaxAccesses == 3
MaxIters == 2

----------------------------------------------------------------------------
(* Values *)

None == <<>>
Some(v) == <<v>>
IsNone(x) == x = <<>>
Val(x) == x[1]

Empty == <<>>
Ada == <<"A", "d", "a">>
Lovelace == <<"L", "o", "v", "e">>
ada == <<"a", "d", "a">>
Mail == <<"a", "@", "x">>

FirstNames == {Empty, Ada}
LastNames == {Empty, Lovelace}
Usernames == {Empty, ada}
Ages == {None, Some(-1), Some(0), Some(10), Some(17), Some(18), Some(20)}
Ids == {None, Some(1), Some(2)}
Times == {None, Some(1), Some(2)}

Returned(v) == [kind |-> "return", val |-> v]
Raised(e) == [kind |-> e, val |-> None]
NotImplemented == [kind |-> "NotImplemented", val |-> None]
NoResult == [kind |-> "none", val |-> None]
\* The record of an operation: its name, what it returned or raised.
Did(name, result) == op' = name /\ prev' = op /\ ret' = result

NoIters ==
    [i \in 1..MaxIters |-> [state |-> "none", src |-> <<>>, out |-> <<>>, dirty |-> FALSE]]

\* Assignments to the plain fields are seen by the generators that have
\* already read the fields: they now hold values the record no longer has.
MarkDirty(its) ==
    [i \in DOMAIN its |->
        IF its[i].state \in {"running", "done"}
        THEN [its[i] EXCEPT !.dirty = TRUE] ELSE its[i]]

----------------------------------------------------------------------------
(* The cached property is_adult and invalidate_cache() *)

\* The body of is_adult.
IsAdultBody(a) == ~IsNone(a) /\ Val(a) >= 18

\* A property in place of the cached property: every read runs the body.
ReadIsAdultUncached(c, a) == <<IsAdultBody(a), Some(IsAdultBody(a)), 1>>

\* Reading self.is_adult returns the __dict__ entry when there is one, and
\* otherwise runs the body and stores the result in __dict__.  The result is
\* <<value, new cache, evaluations made>>.
ReadIsAdult(c, a) ==
    IF ~IsNone(c) THEN <<Val(c), c, 0>>
    ELSE <<IsAdultBody(a), Some(IsAdultBody(a)), 1>>

\* self.age = a
SetAge(a) ==
    /\ age' = a
    /\ Did("set_age", NoResult)
    /\ iters' = MarkDirty(iters)
    /\ UNCHANGED <<first_name, last_name, username, email, date_joined, id,
                   cache, arg, evals, accesses, emptyAccesses, pinned>>

\* v = self.is_adult
GetIsAdult ==
    LET r == ReadIsAdult(cache, age) IN
    /\ accesses < MaxAccesses
    /\ evals + r[3] <= MaxEvals
    /\ cache' = r[2]
    /\ Did("is_adult", Returned(r[1]))
    /\ evals' = evals + r[3]
    /\ accesses' = accesses + 1
    /\ emptyAccesses' = IF IsNone(cache) THEN emptyAccesses + 1 ELSE emptyAccesses
    /\ pinned' = IF IsNone(pinned) THEN Some(r[1]) ELSE pinned
    /\ UNCHANGED <<fields, arg, iters>>

\* A del that is skipped.
DelIsAdultSkipped(c) == c

\* What `del self.is_adult` leaves in __dict__.
DelIsAdult(c) == None

\* self.invalidate_cache(): hasattr() reads the attribute, which is always
\* there to be read (the descriptor computes it when it is not stored), and
\* the del then removes the __dict__ entry.
InvalidateCache ==
    LET r == ReadIsAdult(cache, age) IN
    /\ evals + r[3] <= MaxEvals
    /\ cache' = DelIsAdult(r[2])
    /\ evals' = evals + r[3]
    /\ Did("invalidate_cache", Returned(None))
    /\ pinned' = None
    /\ UNCHANGED <<fields, arg, accesses, emptyAccesses, iters>>

InitCache ==
    /\ first_name = Ada /\ last_name = Lovelace /\ username = ada /\ email = Mail
    /\ date_joined = None /\ id = None
    /\ age \in Ages
    /\ cache = None
    /\ op = "init" /\ prev = "init" /\ arg = None /\ ret = NoResult
    /\ evals = 0 /\ accesses = 0 /\ emptyAccesses = 0 /\ pinned = None
    /\ iters = NoIters

NextCache ==
    \/ \E a \in Ages : SetAge(a)
    \/ GetIsAdult
    \/ InvalidateCache

SpecCache == InitCache /\ [][NextCache]_vars

\* C1 (staleness): once is_adult has been accessed and until invalidate_cache()
\* is called, every access of is_adult returns the value of that first access,
\* whatever has been assigned to age since.
StalenessLaw ==
    (op = "is_adult" /\ ~IsNone(pinned)) => ret = Returned(Val(pinned))

\* age was 10 at the first access, is 20 now, and a later access still says False.
StalenessWitness ==
    /\ op = "is_adult" /\ prev = "set_age" /\ accesses >= 2
    /\ age = Some(20) /\ pinned = Some(FALSE) /\ ret = Returned(FALSE)

\* C2 (freshness): an access of is_adult that directly follows
\* invalidate_cache() returns (age is not None and age >= 18) for the age
\* held at that access.
FreshAfterInvalidate ==
    (op = "is_adult" /\ prev = "invalidate_cache") => ret = Returned(IsAdultBody(age))

\* An access after an invalidation that followed an earlier access and now
\* reports True.
FreshWitness ==
    /\ op = "is_adult" /\ prev = "invalidate_cache" /\ accesses >= 2
    /\ age = Some(20) /\ ret = Returned(TRUE)

\* C3 (frame of invalidate_cache): when invalidate_cache() returns no is_adult
\* value is stored and every plain field is what it was before the call; on a
\* record with nothing stored, the cache state is unchanged too.
InvalidateFrame ==
    [][op' = "invalidate_cache" =>
        /\ cache' = None
        /\ fields' = fields
        /\ (IsNone(cache) => cache' = cache)]_vars

\* invalidate_cache() called twice in a row after an access: the second call
\* found nothing stored.
InvalidateWitness ==
    /\ op = "invalidate_cache" /\ prev = "invalidate_cache" /\ accesses >= 1
    /\ cache = None

\* C4 (idempotence): the second of two consecutive accesses of is_adult
\* returns what the first returned and does not evaluate the body.
SecondAccessSame ==
    [][(op = "is_adult" /\ op' = "is_adult") => (ret' = ret /\ evals' = evals)]_vars

SecondAccessWitness ==
    op = "is_adult" /\ prev = "is_adult" /\ accesses >= 2 /\ evals = 1

\* C10 (as claimed): the body of is_adult is evaluated exactly once per access
\* of is_adult made while nothing is stored, and never by invalidate_cache().
EvalsAreEmptyAccesses == evals = emptyAccesses

----------------------------------------------------------------------------
(* Plain fields, full_name and clean() *)

\* self.first_name = s
SetFirstName(s) ==
    /\ first_name' = s
    /\ Did("set_first_name", NoResult)
    /\ iters' = MarkDirty(iters)
    /\ UNCHANGED <<last_name, username, email, date_joined, age, id,
                   cache, arg, evals, accesses, emptyAccesses, pinned>>

\* self.last_name = s
SetLastName(s) ==
    /\ last_name' = s
    /\ Did("set_last_name", NoResult)
    /\ iters' = MarkDirty(iters)
    /\ UNCHANGED <<first_name, username, email, date_joined, age, id,
                   cache, arg, evals, accesses, emptyAccesses, pinned>>

\* self.username = s
SetUsername(s) ==
    /\ username' = s
    /\ Did("set_username", NoResult)
    /\ iters' = MarkDirty(iters)
    /\ UNCHANGED <<first_name, last_name, email, date_joined, age, id,
                   cache, arg, evals, accesses, emptyAccesses, pinned>>

\* bool(s) of a text
Truthy(s) == Len(s) > 0

\* f"{a} {b}"
Format2(a, b) == a \o <<" ">> \o b

\* f"{self.first_name} {self.last_name}" or f"{self.username}"
FullNameBody(f, l, u) == IF Truthy(Format2(f, l)) THEN Format2(f, l) ELSE u

\* v = self.full_name
FullName ==
    /\ Did("full_name", Returned(FullNameBody(first_name, last_name, username)))
    /\ UNCHANGED <<fields, cache, arg, evals, accesses, emptyAccesses, pinned, iters>>

\* v = self.get_full_name()
GetFullName ==
    /\ Did("get_full_name", Returned(FullNameBody(first_name, last_name, username)))
    /\ UNCHANGED <<fields, cache, arg, evals, accesses, emptyAccesses, pinned, iters>>

\* A clean() whose age test is `<= 0`.
CleanBodyZeroRejected(u, a) ==
    IF ~Truthy(u) THEN Raised("ValueError")
    ELSE IF ~IsNone(a) /\ Val(a) <= 0 THEN Raised("ValueError")
    ELSE Returned(None)

\* The body of clean(): the two tests, then models.Model.clean(), which does
\* nothing.
CleanBody(u, a) ==
    IF ~Truthy(u) THEN Raised("ValueError")
    ELSE IF ~IsNone(a) /\ Val(a) < 0 THEN Raised("ValueError")
    ELSE Returned(None)

\* self.clean()
Clean ==
    /\ Did("clean", CleanBody(username, age))
    /\ UNCHANGED <<fields, cache, arg, evals, accesses, emptyAccesses, pinned, iters>>

InitFields ==
    /\ first_name \in FirstNames /\ last_name \in LastNames
    /\ username \in Usernames /\ email = Mail
    /\ date_joined = None /\ id = None
    /\ age \in Ages
    /\ cache = None
    /\ op = "init" /\ prev = "init" /\ arg = None /\ ret = NoResult
    /\ evals = 0 /\ accesses = 0 /\ emptyAccesses = 0 /\ pinned = None
    /\ iters = NoIters

NextFields ==
    \/ \E s \in FirstNames : SetFirstName(s)
    \/ \E s \in LastNames : SetLastName(s)
    \/ \E s \in Usernames : SetUsername(s)
    \/ \E a \in Ages : SetAge(a)
    \/ FullName
    \/ GetFullName
    \/ Clean

SpecFields == InitFields /\ [][NextFields]_vars

\* C5 (as claimed): full_name and get_full_name() return
\* "{first_name} {last_name}", except that with first_name and last_name both
\* empty they return username; computed from the fields held at the access.
FullNameFallsBack ==
    op \in {"full_name", "get_full_name"} =>
        /\ ret.kind = "return"
        /\ ret.val = IF first_name = Empty /\ last_name = Empty
                     THEN username ELSE Format2(first_name, last_name)

\* C6 (clean): clean() raises (the code's ValueError, the ValidationError kind
\* of the specification) exactly when username is empty or age is present and
\* negative, returns normally otherwise, and in either case leaves every field
\* as it was.
CleanRejectsExactly ==
    [][op' = "clean" =>
        /\ ret'.kind \in {"ValueError", "return"}
        /\ (ret'.kind = "ValueError") <=>
               (username = Empty \/ (~IsNone(age) /\ Val(age) < 0))
        /\ fields' = fields]_vars

\* clean() has just rejected a record with a username and a negative age,
\* and the age is still the negative one.
CleanWitness ==
    /\ op = "clean" /\ ret.kind = "ValueError"
    /\ username = ada /\ age = Some(-1)

----------------------------------------------------------------------------
(* __eq__, __lt__ and __hash__ *)

\* self as an operand of a comparison.
Self ==
    [isUser |-> TRUE, id |-> id, date_joined |-> date_joined, username |-> username]

\* The right-hand operands: User instances, saved or not, and values that are
\* no User (one of them with an id attribute of its own).
Others ==
    [isUser : {TRUE}, id : Ids, date_joined : Times, username : Usernames]
    \cup [isUser : {FALSE}, id : {None, Some(1)}, date_joined : {None}, username : {Empty}]

\* An __eq__ that compares the username as well.
UserEqWithUsername(a, b) ==
    IF ~b.isUser THEN NotImplemented
    ELSE Returned(a.id = b.id /\ a.username = b.username)

\* a.__eq__(b)
UserEq(a, b) ==
    IF ~b.isUser THEN NotImplemented
    ELSE Returned(a.id = b.id)

\* An __lt__ written with `<=`.
UserLtOrEqual(a, b) ==
    IF ~b.isUser THEN NotImplemented
    ELSE IF IsNone(a.date_joined) \/ IsNone(b.date_joined) THEN Raised("TypeError")
    ELSE Returned(Val(a.date_joined) <= Val(b.date_joined))

\* a.__lt__(b); ordering None against anything raises TypeError.
UserLt(a, b) ==
    IF ~b.isUser THEN NotImplemented
    ELSE IF IsNone(a.date_joined) \/ IsNone(b.date_joined) THEN Raised("TypeError")
    ELSE Returned(Val(a.date_joined) < Val(b.date_joined))

\* hash() of an id: an int no larger than the ids of the model hashes to
\* itself (-1 to -2), None to the interpreter's hash of None.
PyHash(x) ==
    IF IsNone(x) THEN <<"hash", "None">>
    ELSE <<IF Val(x) = -1 THEN -2 ELSE Val(x)>>

\* a.__hash__()
UserHash(a) == PyHash(a.id)

\* self == o
Eq(o) ==
    /\ arg' = o
    /\ Did("eq", UserEq(Self, o))
    /\ UNCHANGED <<fields, cache, evals, accesses, emptyAccesses, pinned, iters>>

\* self < o
Lt(o) ==
    /\ arg' = o
    /\ Did("lt", UserLt(Self, o))
    /\ UNCHANGED <<fields, cache, evals, accesses, emptyAccesses, pinned, iters>>

\* hash(self), hash(o) for a User o
Hash(o) ==
    /\ o.isUser
    /\ arg' = o
    /\ Did("hash", Returned(<<UserHash(Self), UserHash(o)>>))
    /\ UNCHANGED <<fields, cache, evals, accesses, emptyAccesses, pinned, iters>>

InitCmp ==
    /\ first_name = Ada /\ last_name = Lovelace
    /\ username \in Usernames /\ email = Mail
    /\ date_joined \in Times /\ id \in Ids
    /\ age = None
    /\ cache = None
    /\ op = "init" /\ prev = "init" /\ arg = None /\ ret = NoResult
    /\ evals = 0 /\ accesses = 0 /\ emptyAccesses = 0 /\ pinned = None
    /\ iters = NoIters

NextCmp ==
    \/ \E o \in Others : Eq(o)
    \/ \E o \in Others : Lt(o)
    \/ \E o \in Others : Hash(o)
    \/ \E s \in Usernames : SetUsername(s)

SpecCmp == InitCmp /\ [][NextCmp]_vars

\* C7 (equality and hashing): self == o is True exactly when o is a User with
\* the same id, whatever the other fields, and False for a User with another
\* id; two Users with the same id have the same hash; for an o that is no
\* User, __eq__ returns NotImplemented.
EqualityByIdentity ==
    /\ (op = "eq" /\ arg.isUser) =>
            (ret.kind = "return" /\ (ret.val <=> (id = arg.id)))
    /\ (op = "eq" /\ ~arg.isUser) => ret.kind = "NotImplemented"
    /\ (op = "hash" /\ id = arg.id) =>
            (ret.kind = "return" /\ ret.val[1] = ret.val[2])

\* Two saved Users with the same id and different usernames compared equal.
EqualityWitness ==
    /\ op = "eq" /\ arg.isUser /\ id = Some(1) /\ arg.id = Some(1)
    /\ arg.username # username /\ ret.kind = "return" /\ ret.val = TRUE

\* C8 (ordering): self < o is True exactly when o is a User and
\* self.date_joined is strictly earlier than o.date_joined, whatever the ids
\* (so never for equal date_joined); for an o that is no User, __lt__ returns
\* NotImplemented.
OrderingByDateJoined ==
    /\ (op = "lt" /\ arg.isUser) =>
            ((ret.kind = "return" /\ ret.val) <=>
                (/\ ~IsNone(date_joined) /\ ~IsNone(arg.date_joined)
                 /\ Val(date_joined) < Val(arg.date_joined)))
    /\ (op = "lt" /\ arg.isUser /\ ~IsNone(date_joined) /\ ~IsNone(arg.date_joined)) =>
            ret.kind = "return"
    /\ (op = "lt" /\ ~arg.isUser) => ret.kind = "NotImplemented"

\* A User that joined earlier and has the larger id compared less.
OrderingWitness ==
    /\ op = "lt" /\ arg.isUser /\ date_joined = Some(1) /\ arg.date_joined = Some(2)
    /\ id = Some(2) /\ arg.id = Some(1) /\ ret.kind = "return" /\ ret.val = TRUE

----------------------------------------------------------------------------
(* __iter__ *)

IterAges == {Some(20), Some(36)}

\* The tuple the generator delegates to.
FieldTuple == <<first_name, last_name, username, email, date_joined, age>>

\* The first unused generator slot, 0 when there is none.
FreeSlot(its) ==
    IF \E i \in DOMAIN its : its[i].state = "none"
    THEN CHOOSE i \in DOMAIN its :
            its[i].state = "none" /\ \A j \in DOMAIN its : its[j].state = "none" => i <= j
    ELSE 0

\* it = iter(self): calling the generator function makes a generator object
\* and runs none of its body.
Iter ==
    /\ FreeSlot(iters) # 0
    /\ iters' = [iters EXCEPT ![FreeSlot(iters)].state = "created"]
    /\ arg' = FreeSlot(iters)
    /\ Did("iter", NoResult)
    /\ UNCHANGED <<fields, cache, evals, accesses, emptyAccesses, pinned>>

\* The number of values the first k generators have yielded.
RECURSIVE Yielded(_, _)
Yielded(its, k) == IF k = 0 THEN 0 ELSE Len(its[k].out) + Yielded(its, k - 1)

\* One position kept on the instance and used by every iteration of it.
GenNextSharedPosition(its, i, t) ==
    LET n == Yielded(its, Len(its)) IN
    IF its[i].state = "created" \/ n < Len(t)
    THEN [its EXCEPT ![i] = [state |-> "running", src |-> t,
                             out |-> Append(its[i].out, t[(n % Len(t)) + 1]),
                             dirty |-> its[i].dirty]]
    ELSE [its EXCEPT ![i].state = "done"]

\* next(it) on generator i, t being the field values at the call.  The first
\* call builds the tuple and yields its first element; the later ones yield
\* from that tuple; when it is exhausted the generator returns, which
\* raises StopIteration.
GenNext(its, i, t) ==
    IF its[i].state = "created"
    THEN [its EXCEPT ![i] = [state |-> "running", src |-> t, out |-> <<t[1]>>,
                             dirty |-> FALSE]]
    ELSE IF Len(its[i].out) < Len(its[i].src)
    THEN [its EXCEPT ![i].out = Append(@, its[i].src[Len(@) + 1])]
    ELSE [its EXCEPT ![i].state = "done"]

\* v = next(it)
NextItem(i) ==
    /\ iters[i].state \in {"created", "running"}
    /\ iters' = GenNext(iters, i, FieldTuple)
    /\ arg' = i
    /\ Did("next", IF iters'[i].state = "done" THEN Raised("StopIteration")
                    ELSE Returned(iters'[i].out[Len(iters'[i].out)]))
    /\ UNCHANGED <<fields, cache, evals, accesses, emptyAccesses, pinned>>

InitIter ==
    /\ first_name = Ada /\ last_name = Lovelace
    /\ username = ada /\ email = Mail
    /\ date_joined = Some(1) /\ id = Some(1)
    /\ age \in IterAges
    /\ cache = None
    /\ op = "init" /\ prev = "init" /\ arg = None /\ ret = NoResult
    /\ evals = 0 /\ accesses = 0 /\ emptyAccesses = 0 /\ pinned = None
    /\ iters = NoIters

NextIter ==
    \/ Iter
    \/ \E i \in 1..MaxIters : NextItem(i)
    \/ \E a \in IterAges : SetAge(a)

SpecIter == InitIter /\ [][NextIter]_vars

\* C9 (destructuring): every iteration of the record yields first_name,
\* last_name, username, email, date_joined, age in that order, each from its
\* own position, and ends after the sixth; so two completed iterations of an
\* unchanged record have yielded the same six values.
IterationOrdered ==
    \A i \in 1..MaxIters :
        /\ (iters[i].state \in {"running", "done"} /\ ~iters[i].dirty) =>
                iters[i].out = SubSeq(<<first_name, last_name, username, email,
                                        date_joined, age>>, 1, Len(iters[i].out))
        /\ iters[i].state = "running" => Len(iters[i].out) \in 1..6
        /\ iters[i].state = "done" => Len(iters[i].out) = 6
        /\ \A j \in 1..MaxIters :
                (/\ iters[i].state = "done" /\ iters[j].state = "done"
                 /\ ~iters[i].dirty /\ ~iters[j].dirty) =>
                    iters[i].out = iters[j].out

\* A second iteration has ended after yielding the six values, while the
\* first, begun before it, stands at its third value.
IterationWitness ==
    /\ iters[1].state = "running" /\ Len(iters[1].out) = 3 /\ ~iters[1].dirty
    /\ iters[2].state = "done" /\ ~iters[2].dirty
    /\ iters[2].out = <<first_name, last_name, username, email, date_joined, age>>
    /\ age = Some(36)

====
